---- MODULE Spec2Model ----
(***************************************************************************)
(* A model of app.py, the multi-company trial-balance dashboard script.    *)
(* One run of the script is: the sidebar (lines 11-43), which builds       *)
(* company_sheet_map from a preview of every sheet, and the main execution *)
(* (lines 213-236), which loads the selected sheet, classifies it, shows   *)
(* the three report tabs and calls the FinBot under the first two.         *)
(*                                                                         *)
(* Python strings are TLA+ strings; a spreadsheet cell is a record         *)
(* [t, s, n]: t = "nan" (blank), "str" (text s) or "num" (integer n).      *)
(***************************************************************************)
EXTENDS Integers, Sequences, FiniteSets, TLC

VARIABLES
    workbook,           \* sidebar: the sheets of the uploaded workbook, in file order
    sheet_idx,          \* sidebar: index of the next sheet the loop of line 27 visits
    company_sheet_map,  \* sidebar: line 15, a set of <<key, value>> pairs with unique keys
    selected_sheet,     \* sidebar: line 14/40, "" stands for None
    uploaded_file,      \* main: TRUE when a workbook was uploaded
    sheet_raw,          \* main: what pd.read_excel yields for the selected sheet
    openai_api_key,     \* main: line 43
    questions,          \* main: the text typed in the FinBot input of each tab
    pc,                 \* main: position of the script
    df,                 \* main: df_raw / df_class, None before and after a failed load
    display,            \* main: what the run has shown so far, in order
    requests,           \* main: the requests posted to the completion endpoint, in order
    crashed,            \* main: TRUE once an exception has escaped the script
    cls_input,          \* classifier: the table first handed to classify_accounts
    cls_df,             \* classifier: the table classify_accounts works on
    cls_once,           \* classifier: the input, stripped of its classification, classified once
    cls_n               \* classifier: how often classify_accounts was applied to cls_df

sidebarVars == <<workbook, sheet_idx, company_sheet_map, selected_sheet>>
mainVars == <<uploaded_file, sheet_raw, openai_api_key, questions, pc, df, display,
              requests, crashed>>
clsVars == <<cls_input, cls_df, cls_once, cls_n>>
vars == <<sidebarVars, mainVars, clsVars>>

-----------------------------------------------------------------------------
(* Bounds of the model.                                                    *)

\* rows of a sheet previewed by the sidebar (before padding)
MaxSideRows == 2
\* rows of the sheet the main execution loads
MaxRows == 3
\* rows of a table handed to classify_accounts in the classifier harness
MaxClsRows == 1
\* how often the classifier harness re-applies classify_accounts
MaxApply == 2

-----------------------------------------------------------------------------
(* Python str helpers.                                                     *)

LowerMap ==
    [c \in {"A","B","C","D","E","F","G","H","I","J","K","L","M","N","O","P","Q",
            "R","S","T","U","V","W","X","Y","Z"} |->
        CASE c = "A" -> "a" [] c = "B" -> "b" [] c = "C" -> "c" [] c = "D" -> "d"
          [] c = "E" -> "e" [] c = "F" -> "f" [] c = "G" -> "g" [] c = "H" -> "h"
          [] c = "I" -> "i" [] c = "J" -> "j" [] c = "K" -> "k" [] c = "L" -> "l"
          [] c = "M" -> "m" [] c = "N" -> "n" [] c = "O" -> "o" [] c = "P" -> "p"
          [] c = "Q" -> "q" [] c = "R" -> "r" [] c = "S" -> "s" [] c = "T" -> "t"
          [] c = "U" -> "u" [] c = "V" -> "v" [] c = "W" -> "w" [] c = "X" -> "x"
          [] c = "Y" -> "y" [] c = "Z" -> "z"]

CharAt(s, i) == SubSeq(s, i, i)

RECURSIVE Lower(_)
\* str.lower()
Lower(s) ==
    IF s = "" THEN ""
    ELSE LET c == CharAt(s, 1)
         IN (IF c \in DOMAIN LowerMap THEN LowerMap[c] ELSE c) \o Lower(Tail(s))

\* needle in hay
Contains(hay, needle) ==
    \E i \in 1..(Len(hay) - Len(needle) + 1) : SubSeq(hay, i, i + Len(needle) - 1) = needle

\* s.startswith(p)
StartsWith(s, p) == Len(p) <= Len(s) /\ SubSeq(s, 1, Len(p)) = p

\* s.startswith((p1, p2, ...))
StartsWithAny(s, ps) == \E p \in ps : StartsWith(s, p)

Whitespace == {" ", "\n", "\t"}

RECURSIVE LStrip(_)
LStrip(s) == IF s # "" /\ CharAt(s, 1) \in Whitespace THEN LStrip(Tail(s)) ELSE s

RECURSIVE RStrip(_)
RStrip(s) ==
    IF s # "" /\ CharAt(s, Len(s)) \in Whitespace THEN RStrip(SubSeq(s, 1, Len(s) - 1)) ELSE s

\* str.strip()
Strip(s) == RStrip(LStrip(s))

DigitChars == {"0","1","2","3","4","5","6","7","8","9"}

DigitStr == [d \in 0..9 |->
    CASE d = 0 -> "0" [] d = 1 -> "1" [] d = 2 -> "2" [] d = 3 -> "3" [] d = 4 -> "4"
      [] d = 5 -> "5" [] d = 6 -> "6" [] d = 7 -> "7" [] d = 8 -> "8" [] d = 9 -> "9"]

DigitVal(c) == CHOOSE d \in 0..9 : DigitStr[d] = c

RECURSIVE NatToStr(_)
NatToStr(n) == IF n < 10 THEN DigitStr[n] ELSE NatToStr(n \div 10) \o DigitStr[n % 10]

\* str(n) of a Python int
IntToStr(n) == IF n < 0 THEN "-" \o NatToStr(-n) ELSE NatToStr(n)

\* every character of s is one of 0-9, and s is not empty
IsDigits(s) == s # "" /\ \A i \in 1..Len(s) : CharAt(s, i) \in DigitChars

RECURSIVE StrToNat(_)
StrToNat(s) == IF s = "" THEN 0 ELSE StrToNat(SubSeq(s, 1, Len(s) - 1)) * 10 + DigitVal(CharAt(s, Len(s)))

-----------------------------------------------------------------------------
(* Cells and grids.                                                        *)

NaN == [t |-> "nan", s |-> "", n |-> 0]
Str(x) == [t |-> "str", s |-> x, n |-> 0]
Num(k) == [t |-> "num", s |-> "", n |-> k]

\* str(x) of a cell value
PyStr(c) == CASE c.t = "nan" -> "nan" [] c.t = "str" -> c.s [] c.t = "num" -> IntToStr(c.n)

\* all sequences over S of length 0..n
SeqUpTo(S, n) == UNION {[1..k -> S] : k \in 0..n}

RECURSIVE Repeat(_, _)
Repeat(x, n) == IF n = 0 THEN <<>> ELSE <<x>> \o Repeat(x, n - 1)

RECURSIVE SelectIdx(_, _, _)
\* the indices i of 1..n, ascending, for which keep[i]
SelectIdx(keep, i, n) ==
    IF i > n THEN <<>>
    ELSE (IF keep[i] THEN <<i>> ELSE <<>>) \o SelectIdx(keep, i + 1, n)

-----------------------------------------------------------------------------
(* Sidebar, lines 11-43.                                                   *)

\* nrows=20 of line 29
PreviewRows == 20

\* row_values of line 19: the cells of a row as strings, without the blank ones
RowValues(row) ==
    LET strs == [i \in 1..Len(row) |-> PyStr(row[i])]
        idx == SelectIdx([i \in 1..Len(row) |-> strs[i] # "nan"], 1, Len(row))
    IN [k \in 1..Len(idx) |-> strs[idx[k]]]

\* lines 20-22 for one row: the hit positions i, ascending
CompanyHits(rv) ==
    SelectIdx([i \in 1..Len(rv) |-> Contains(Lower(rv[i]), "company") /\ i + 1 <= Len(rv)],
              1, Len(rv))

NoneName == [found |-> FALSE, name |-> ""]
SomeName(x) == [found |-> TRUE, name |-> x]

RECURSIVE ExtractFrom(_, _)
ExtractFrom(grid, r) ==
    IF r > Len(grid) THEN NoneName
    ELSE LET rv == RowValues(grid[r])
             hits == CompanyHits(rv)
         IN IF hits # <<>> THEN SomeName(Strip(rv[hits[1] + 1])) ELSE ExtractFrom(grid, r + 1)

RECURSIVE ExtractLabelFrom(_, _)
ExtractLabelFrom(grid, r) ==
    IF r > Len(grid) THEN NoneName
    ELSE LET rv == RowValues(grid[r])
             hits == CompanyHits(rv)
         IN IF hits # <<>> THEN SomeName(Strip(rv[hits[1]])) ELSE ExtractLabelFrom(grid, r + 1)

\* returns row_values[i], the label itself, instead of row_values[i + 1]
extract_company_name_SameCell(sheet_df) == ExtractLabelFrom(sheet_df, 1)

\* extract_company_name, lines 17-23
extract_company_name(sheet_df) == ExtractFrom(sheet_df, 1)

\* xl_preview.parse(sheet, header=None, nrows=20), line 29
ParsePreview(grid) == SubSeq(grid, 1, IF Len(grid) < PreviewRows THEN Len(grid) ELSE PreviewRows)

\* d[k] = v on a dict kept as a set of pairs
DictSet(d, k, v) == {p \in d : p[1] # k} \cup {<<k, v>>}
DictKeys(d) == {p[1] : p \in d}
DictGet(d, k) == (CHOOSE p \in d : p[1] = k)[2]

\* The rows a previewed sheet is made of: a label alone in its row, a label followed by
\* another cell, an upper-case label followed (after a blank cell) by the padded name,
\* and a row without a label.
SideRows ==
    { <<Str("Company: Acme Corp"), NaN, NaN>>,
      <<Str("Company: Acme Corp"), NaN, Str("FY2024")>>,
      <<Str("COMPANY"), NaN, Str(" Acme Corp ")>>,
      <<Str("Trial Balance"), Num(2024), NaN>> }

BlankSideRow == <<NaN, NaN, NaN>>

\* A sheet's grid: up to MaxSideRows rows, directly or below PreviewRows blank rows.
SideGrids ==
    {Repeat(BlankSideRow, pad) \o rows : pad \in {0, PreviewRows}, rows \in SeqUpTo(SideRows, MaxSideRows)}

\* Sheet names are unique within a workbook; a sheet may be named like a company.
SheetNamePairs ==
    { <<"Sheet1", "Sheet2">>, <<"Sheet1", "Acme Corp">>, <<"Acme Corp", "Sheet2">> }

Sheet(nm, c) == [name |-> nm, grid |-> c.grid, readable |-> c.readable]

\* What a sheet holds: a grid, or nothing the parser can read (line 35).
SheetContents ==
    {[grid |-> g, readable |-> TRUE] : g \in SideGrids} \cup {[grid |-> <<>>, readable |-> FALSE]}

\* The uploaded workbooks: two sheets each.
Workbooks ==
    { <<Sheet(nms[1], c1), Sheet(nms[2], c2)>> :
        nms \in SheetNamePairs, c1 \in SheetContents, c2 \in SheetContents }

\* <<>> stands for "no file uploaded"
InitSidebar ==
    /\ workbook \in Workbooks \cup {<<>>}
    /\ sheet_idx = 1
    /\ company_sheet_map = {}
    /\ selected_sheet = ""

\* The key under which the loop body, lines 28-36, files a sheet.
SheetKey(sh) ==
    IF ~sh.readable THEN sh.name
    ELSE LET company_name == extract_company_name(ParsePreview(sh.grid))
         IN IF company_name.found /\ company_name.name # "" THEN company_name.name
            ELSE sh.name

\* One iteration of the loop of line 27.
SidebarSheet ==
    /\ sheet_idx <= Len(workbook)
    /\ LET sh == workbook[sheet_idx]
       IN company_sheet_map' = DictSet(company_sheet_map, SheetKey(sh), sh.name)
    /\ sheet_idx' = sheet_idx + 1
    /\ UNCHANGED <<workbook, selected_sheet, mainVars, clsVars>>

\* Lines 38-40: the user picks one of the display names.
SelectCompany ==
    /\ workbook # <<>>
    /\ sheet_idx = Len(workbook) + 1
    /\ \E selected_display \in DictKeys(company_sheet_map) :
          selected_sheet' = DictGet(company_sheet_map, selected_display)
    /\ sheet_idx' = sheet_idx + 1
    /\ UNCHANGED <<workbook, company_sheet_map, mainVars, clsVars>>

NextSidebar == SidebarSheet \/ SelectCompany

-----------------------------------------------------------------------------
(* Tables (pandas DataFrames): column labels are cells, rows are sequences  *)
(* of cells.                                                               *)

NoneDf == [is_none |-> TRUE, columns |-> <<>>, rows |-> <<>>]
Table(cols, rws) == [is_none |-> FALSE, columns |-> cols, rows |-> rws]

\* the positions of the columns labelled name
ColIdx(d, name) ==
    SelectIdx([i \in 1..Len(d.columns) |-> d.columns[i] = Str(name)], 1, Len(d.columns))

\* name in df.columns
HasCol(d, name) == ColIdx(d, name) # <<>>

\* df[name] is a DataFrame, not a Series, when the label occurs more than once
IsFrame(d, name) == Len(ColIdx(d, name)) > 1

\* the value of row under the (single) column name
Get(d, row, name) == row[ColIdx(d, name)[1]]

\* df[name] = values: overwrites the column when it exists, appends it otherwise
SetCol(d, name, values) ==
    IF HasCol(d, name)
    THEN Table(d.columns,
               [r \in 1..Len(d.rows) |->
                   [d.rows[r] EXCEPT ![ColIdx(d, name)[1]] = values[r]]])
    ELSE Table(Append(d.columns, Str(name)),
               [r \in 1..Len(d.rows) |-> Append(d.rows[r], values[r])])

\* df[mask]: the rows whose mask is TRUE, in order
FilterRows(d, mask) ==
    LET idx == SelectIdx(mask, 1, Len(d.rows))
    IN Table(d.columns, [k \in 1..Len(idx) |-> d.rows[idx[k]]])

\* df.loc[mask, name] = value
LocSet(d, mask, name, value) ==
    SetCol(d, name, [r \in 1..Len(d.rows) |-> IF mask[r] THEN Str(value) ELSE Get(d, d.rows[r], name)])

\* df.empty
IsEmpty(d) == Len(d.rows) = 0 \/ Len(d.columns) = 0

-----------------------------------------------------------------------------
(* extract_trial_balance, lines 46-55.                                     *)

\* line 48: row.astype(str).tolist()
RowStrs(row) == [i \in 1..Len(row) |-> PyStr(row[i])]

\* line 49
IsHeaderRow(row) ==
    /\ \E i \in 1..Len(row) : Contains(Lower(RowStrs(row)[i]), "account")
    /\ \E i \in 1..Len(row) : Contains(Lower(RowStrs(row)[i]), "description")

AllBlank(row) == \A i \in 1..Len(row) : row[i] = NaN

\* without the dropna(how='all') of line 52
TableFrom_KeepBlankRows(sheet_df, i) ==
    Table(sheet_df[i], SubSeq(sheet_df, i + 1, Len(sheet_df)))

\* lines 50-54: the table headed by row i
TableFrom(sheet_df, i) ==
    LET rest == SubSeq(sheet_df, i + 1, Len(sheet_df))
        idx == SelectIdx([k \in 1..Len(rest) |-> ~AllBlank(rest[k])], 1, Len(rest))
    IN Table(sheet_df[i], [k \in 1..Len(idx) |-> rest[idx[k]]])

extract_trial_balance(sheet_df) ==
    LET hits == SelectIdx([i \in 1..Len(sheet_df) |-> IsHeaderRow(sheet_df[i])], 1, Len(sheet_df))
    IN IF hits # <<>> THEN TableFrom(sheet_df, hits[1]) ELSE Table(<<>>, <<>>)

-----------------------------------------------------------------------------
(* load_trial_balance_from_sheet, lines 57-99.                             *)

\* what the run shows: st.warning/error/info/success carry a text, st.dataframe and
\* st.plotly_chart carry rows, st.metric carries a label (tag) and a text
Item(kind, tag, text, data) == [kind |-> kind, tag |-> tag, text |-> text, data |-> data]
Msg(kind, text) == Item(kind, "", text, <<>>)

\* lines 69-81: the canonical name of a column label, "" when no rule matches
CanonicalName(col) ==
    LET cl == Lower(PyStr(col))
    IN IF Contains(cl, "account") /\ ~Contains(cl, "description") THEN "Account"
       ELSE IF Contains(cl, "description") THEN "Description"
       ELSE IF Contains(cl, "beginning") THEN "Beginning_Balance"
       ELSE IF Contains(cl, "ending") THEN "Ending_Balance"
       ELSE IF Contains(cl, "debit") THEN "Debits"
       ELSE IF Contains(cl, "credit") THEN "Credits"
       ELSE ""

\* lines 67-82: df.rename(columns=col_map)
RenameColumns(d) ==
    Table([i \in 1..Len(d.columns) |->
              IF CanonicalName(d.columns[i]) # "" THEN Str(CanonicalName(d.columns[i]))
              ELSE d.columns[i]],
          d.rows)

\* re.match(r'^\d+$', s): $ also matches just before a newline that ends the string
MatchesDigits(s) ==
    \/ IsDigits(s)
    \/ Len(s) >= 2 /\ CharAt(s, Len(s)) = "\n" /\ IsDigits(SubSeq(s, 1, Len(s) - 1))

\* a string pd.to_numeric parses as an integer
IsIntLiteral(s) ==
    \/ IsDigits(s)
    \/ Len(s) >= 2 /\ CharAt(s, 1) \in {"-", "+"} /\ IsDigits(Tail(s))

StrToInt(s) ==
    IF CharAt(s, 1) = "-" THEN 0 - StrToNat(Tail(s))
    ELSE IF CharAt(s, 1) = "+" THEN StrToNat(Tail(s))
    ELSE StrToNat(s)

\* line 93 for one value: pd.to_numeric(x, errors='coerce') and then fillna(0)
ToNumeric(c) ==
    CASE c.t = "num" -> Num(c.n)
      [] c.t = "nan" -> Num(0)
      [] c.t = "str" -> IF IsIntLiteral(c.s) THEN Num(StrToInt(c.s)) ELSE Num(0)

\* lines 88-89
FilterAccounts(d) ==
    LET d1 == SetCol(d, "Account", [r \in 1..Len(d.rows) |-> Str(PyStr(Get(d, d.rows[r], "Account")))])
    IN FilterRows(d1, [r \in 1..Len(d1.rows) |-> MatchesDigits(Get(d1, d1.rows[r], "Account").s)])

NumericCols == <<"Beginning_Balance", "Ending_Balance", "Debits", "Credits">>

RECURSIVE CoerceFrom(_, _)
\* lines 91-93 from the k-th name of the list on
CoerceFrom(d, k) ==
    IF k > Len(NumericCols) THEN d
    ELSE IF HasCol(d, NumericCols[k])
         THEN CoerceFrom(SetCol(d, NumericCols[k],
                                [r \in 1..Len(d.rows) |-> ToNumeric(Get(d, d.rows[r], NumericCols[k]))]),
                         k + 1)
         ELSE CoerceFrom(d, k + 1)

\* line 93 raises TypeError when df[col] is a DataFrame
CoerceRaises(d) == \E k \in 1..Len(NumericCols) : IsFrame(d, NumericCols[k])

Unreadable == [readable |-> FALSE, grid |-> <<>>]
Readable(g) == [readable |-> TRUE, grid |-> g]

\* The function's result: the table (or None) and the messages it showed.
LoadResult(d, shown) == [df |-> d, shown |-> shown]

load_trial_balance_from_sheet(raw) ==
    IF ~raw.readable
    THEN LoadResult(NoneDf, <<Msg("error", "Error reading sheet: cannot read the sheet")>>)
    ELSE
    LET d0 == extract_trial_balance(raw.grid)
        d1 == RenameColumns(d0)
    IN IF IsEmpty(d0)
       THEN LoadResult(NoneDf, <<Msg("warning", "No trial balance found in selected sheet.")>>)
       ELSE IF ~HasCol(d1, "Account")
       THEN LoadResult(NoneDf, <<Msg("warning", "No 'Account' column found.")>>)
       ELSE IF IsFrame(d1, "Account")
       THEN LoadResult(NoneDf, <<Msg("error",
                "Error reading sheet: 'DataFrame' object has no attribute 'str'")>>)
       ELSE IF CoerceRaises(FilterAccounts(d1))
       THEN LoadResult(NoneDf, <<Msg("error",
                "Error reading sheet: arg must be a list, tuple, 1-d array, or Series")>>)
       ELSE LoadResult(CoerceFrom(FilterAccounts(d1), 1), <<>>)

-----------------------------------------------------------------------------
(* classify_accounts, lines 102-117.                                       *)

Acct(d, r) == Get(d, d.rows[r], "Account").s

AcctMask(d, prefixes) == [r \in 1..Len(d.rows) |-> StartsWithAny(Acct(d, r), prefixes)]

\* "prefix" rule: df.loc[df['Account'].str.startswith(keys), col] = value
\* "equals" rule: df.loc[df[on] == key, col] = value
PrefixRule(keys, col, value) == [kind |-> "prefix", on |-> "Account", keys |-> keys, col |-> col, value |-> value]
EqualsRule(on, key, col, value) == [kind |-> "equals", on |-> on, keys |-> {key}, col |-> col, value |-> value]

\* the rules without the last one, which overrides the Sub_Category of Equity rows
ClassificationRules_NoEquityOverride ==
    << PrefixRule({"1"}, "Category", "Assets"),
       PrefixRule({"2"}, "Category", "Liabilities"),
       PrefixRule({"3"}, "Category", "Equity"),
       PrefixRule({"10", "11", "12", "13"}, "Sub_Category", "Cash & Equivalents"),
       PrefixRule({"14", "15"}, "Sub_Category", "Receivables"),
       PrefixRule({"16"}, "Sub_Category", "Inventory"),
       PrefixRule({"17"}, "Sub_Category", "Fixed Assets"),
       PrefixRule({"18", "19"}, "Sub_Category", "Other Assets"),
       PrefixRule({"20", "21"}, "Sub_Category", "Current Liabilities"),
       PrefixRule({"22", "23", "24"}, "Sub_Category", "Long-term Liabilities") >>

\* lines 106-116, in order
ClassificationRules ==
    << PrefixRule({"1"}, "Category", "Assets"),
       PrefixRule({"2"}, "Category", "Liabilities"),
       PrefixRule({"3"}, "Category", "Equity"),
       PrefixRule({"10", "11", "12", "13"}, "Sub_Category", "Cash & Equivalents"),
       PrefixRule({"14", "15"}, "Sub_Category", "Receivables"),
       PrefixRule({"16"}, "Sub_Category", "Inventory"),
       PrefixRule({"17"}, "Sub_Category", "Fixed Assets"),
       PrefixRule({"18", "19"}, "Sub_Category", "Other Assets"),
       PrefixRule({"20", "21"}, "Sub_Category", "Current Liabilities"),
       PrefixRule({"22", "23", "24"}, "Sub_Category", "Long-term Liabilities"),
       EqualsRule("Category", "Equity", "Sub_Category", "Stockholders Equity") >>

RuleMask(d, rule) ==
    [r \in 1..Len(d.rows) |->
        IF rule.kind = "prefix" THEN StartsWithAny(Get(d, d.rows[r], rule.on).s, rule.keys)
        ELSE Get(d, d.rows[r], rule.on).s \in rule.keys]

RECURSIVE ApplyRules(_, _, _)
\* the assignments rules[k], rules[k+1], ... carried out one after the other
ApplyRules(d, rules, k) ==
    IF k > Len(rules) THEN d
    ELSE ApplyRules(LocSet(d, RuleMask(d, rules[k]), rules[k].col, rules[k].value), rules, k + 1)

\* the two columns are added when missing but not cleared when present
ResetColumns_KeepOld(d) ==
    LET n == Len(d.rows)
        a == IF HasCol(d, "Category") THEN d ELSE SetCol(d, "Category", [r \in 1..n |-> Str("")])
        b == IF HasCol(a, "Sub_Category") THEN a
             ELSE SetCol(a, "Sub_Category", [r \in 1..n |-> Str("")])
    IN SetCol(b, "Account", [r \in 1..n |-> Str(PyStr(Get(b, b.rows[r], "Account")))])

\* lines 103-105
ResetColumns(d) ==
    LET a == SetCol(d, "Category", [r \in 1..Len(d.rows) |-> Str("")])
        b == SetCol(a, "Sub_Category", [r \in 1..Len(d.rows) |-> Str("")])
    IN SetCol(b, "Account", [r \in 1..Len(d.rows) |-> Str(PyStr(Get(b, b.rows[r], "Account")))])

classify_accounts(d) == ApplyRules(ResetColumns(d), ClassificationRules, 1)

-----------------------------------------------------------------------------
(* Report views, lines 145-200.                                            *)

\* the result of a view: what it showed, and whether an exception left it
ViewResult(shown, raised) == [shown |-> shown, raised |-> raised]

\* df[[n1, n2, ...]] raises KeyError unless every name is a column
MissingCols(d, names) == \E k \in 1..Len(names) : ~HasCol(d, names[k])

\* df[[n1, n2, ...]]: the rows cut down to the named columns
Project(d, names) ==
    [r \in 1..Len(d.rows) |-> [k \in 1..Len(names) |-> Get(d, d.rows[r], names[k])]]

RowsWhere(d, name, values) ==
    FilterRows(d, [r \in 1..Len(d.rows) |-> Get(d, d.rows[r], name).s \in values])

RECURSIVE SumEnding(_, _)
\* the sum of Ending_Balance over the rows r.. of d
SumEnding(d, r) ==
    IF r > Len(d.rows) THEN 0 ELSE Get(d, d.rows[r], "Ending_Balance").n + SumEnding(d, r + 1)

\* groupby sorts the group keys; the labels the script assigns, in sorted order
SubCategoryOrder ==
    <<"", "Cash & Equivalents", "Current Liabilities", "Fixed Assets", "Inventory",
      "Long-term Liabilities", "Other Assets", "Receivables", "Stockholders Equity">>
TypeOrder == <<"COGS", "Operating Expense", "Other", "Revenue">>

\* df.groupby(name)['Ending_Balance'].sum().reset_index()
GroupSum(d, name, order) ==
    LET present == SelectIdx([k \in 1..Len(order) |->
                                 \E r \in 1..Len(d.rows) : Get(d, d.rows[r], name).s = order[k]],
                             1, Len(order))
    IN [k \in 1..Len(present) |->
           [key |-> order[present[k]],
            value |-> SumEnding(RowsWhere(d, name, {order[present[k]]}), 1)]]

\* the 10 of nlargest(10, 'Ending_Balance'), line 154
TopGroups == 10

RECURSIVE NLargest(_, _)
\* grp.nlargest(n, 'Ending_Balance'): descending, ties in their original order
NLargest(n, grp) ==
    IF n = 0 \/ grp = <<>> THEN <<>>
    ELSE LET best == CHOOSE i \in 1..Len(grp) :
                        /\ \A j \in 1..Len(grp) : grp[j].value <= grp[i].value
                        /\ \A j \in 1..(i - 1) : grp[j].value < grp[i].value
             rest == SubSeq(grp, 1, best - 1) \o SubSeq(grp, best + 1, Len(grp))
         IN <<grp[best]>> \o NLargest(n - 1, rest)

ViewCols == <<"Account", "Description", "Ending_Balance">>

\* display_balance_sheet, lines 145-167
display_balance_sheet(d) ==
    LET df_assets == RowsWhere(d, "Category", {"Assets"})
        df_liab_eq == RowsWhere(d, "Category", {"Liabilities", "Equity"})
        liab == GroupSum(RowsWhere(d, "Category", {"Liabilities"}), "Sub_Category", SubCategoryOrder)
        eq == GroupSum(RowsWhere(d, "Category", {"Equity"}), "Sub_Category", SubCategoryOrder)
        top == <<Msg("header", "Balance Sheet"), Msg("subheader", "Assets")>>
    IN IF MissingCols(d, ViewCols)
       THEN ViewResult(top, TRUE)
       ELSE ViewResult(
              top \o
              << Item("dataframe", "Assets", "", Project(df_assets, ViewCols)),
                 Item("chart", "Top Assets", "",
                      NLargest(TopGroups, GroupSum(df_assets, "Sub_Category", SubCategoryOrder))),
                 Msg("subheader", "Liabilities & Equity"),
                 Item("dataframe", "Liabilities & Equity", "", Project(df_liab_eq, ViewCols)),
                 Item("chart", "Liabilities", "", liab),
                 Item("chart", "Equity", "", eq) >>,
              FALSE)

\* classify of lines 174-178
IncomeType(x) ==
    IF StartsWith(x, "4") THEN "Revenue"
    ELSE IF StartsWith(x, "5") THEN "COGS"
    ELSE IF StartsWith(x, "6") THEN "Operating Expense"
    ELSE "Other"

RECURSIVE Group3(_)
\* the digits of a natural number with thousands separators
Group3(n) ==
    IF n < 1000 THEN NatToStr(n)
    ELSE Group3(n \div 1000) \o "," \o
         (IF n % 1000 < 10 THEN "00" ELSE IF n % 1000 < 100 THEN "0" ELSE "") \o NatToStr(n % 1000)

\* f"${x:,.2f}" of an integer amount
FormatCurrency(x) == "$" \o (IF x < 0 THEN "-" \o Group3(0 - x) ELSE Group3(x)) \o ".00"

\* summary.loc[summary['Type']==t, 'Ending_Balance'].sum()
TypeTotal(summary, t) ==
    IF \E k \in 1..Len(summary) : summary[k].key = t
    THEN (CHOOSE g \in {summary[k] : k \in 1..Len(summary)} : g.key = t).value
    ELSE 0

\* display_income_statement, lines 170-195
display_income_statement(d) ==
    LET df_inc == FilterRows(d, AcctMask(d, {"4", "5", "6", "7"}))
        df_income == SetCol(df_inc, "Type",
                            [r \in 1..Len(df_inc.rows) |-> Str(IncomeType(Acct(df_inc, r)))])
        summary == GroupSum(df_income, "Type", TypeOrder)
        ebitda == TypeTotal(summary, "Revenue") - TypeTotal(summary, "COGS")
                  - TypeTotal(summary, "Operating Expense")
        net_income == ebitda - TypeTotal(summary, "Other")
        top == <<Msg("header", "Income Statement")>>
    IN IF MissingCols(df_income, ViewCols)
       THEN ViewResult(top, TRUE)
       ELSE ViewResult(
              top \o
              << Item("dataframe", "Income", "", Project(df_income, ViewCols \o <<"Type">>)),
                 Item("chart", "Income Breakdown", "", summary),
                 Item("metric", "EBITDA", FormatCurrency(ebitda), <<>>),
                 Item("metric", "Net Income", FormatCurrency(net_income), <<>>) >>,
              FALSE)

\* display_cash_flow, lines 198-200
display_cash_flow ==
    << Msg("header", "Cash Flow Statement (WIP)"),
       Msg("info", "Upload multi-period TB to enable cash flow logic (direct/indirect).") >>

-----------------------------------------------------------------------------
(* ask_ai_v1, lines 120-142.                                               *)

\* head(50) of line 125
ContextRows == 50

ContextCols == <<"Account", "Description", "Category", "Ending_Balance">>

\* what requests.post does: it raises, or it returns a response.  A 200 response
\* carries the endpoint's body, whose choices hold at least one completion.
Raised(e) == [kind |-> "exception", status |-> 0, text |-> e, choices |-> <<>>]
Response(code, cs) == [kind |-> "response", status |-> code, text |-> "", choices |-> cs]

TransportErrors == {"Connection refused", "Read timed out"}
ErrorStatuses == {500, 404}
ChoiceLists == {<<"Answer A">>, <<"Answer A", "Answer B">>}

Outcomes ==
    {Raised(e) : e \in TransportErrors}
    \cup {Response(200, cs) : cs \in ChoiceLists}
    \cup {Response(code, <<>>) : code \in ErrorStatuses}

\* the texts a FinBot input can hold
Questions == {"", "Why is AR high?"}

\* line 125: the data context of the request
Context(d) ==
    LET rows == Project(d, ContextCols)
    IN SubSeq(rows, 1, IF Len(rows) < ContextRows THEN Len(rows) ELSE ContextRows)

Request(tab, api_key, question, d, outcome) ==
    [tab |-> tab, api_key |-> api_key, question |-> question, context |-> Context(d),
     outcome |-> outcome]

\* posts once more after a failure
RequestsSent_RetryOnFailure(req) ==
    IF req.outcome.kind = "exception" \/ req.outcome.status # 200 THEN <<req, req>> ELSE <<req>>

\* lines 134-135: the requests one call of ask_ai_v1 posts for a non-empty question
RequestsSent(req) == <<req>>

\* the error of line 140 without the status code
AskShown_NoStatusCode(tab, outcome) ==
    IF outcome.kind = "exception" THEN Item("error", tab, outcome.text, <<>>)
    ELSE IF outcome.status = 200 THEN Item("success", tab, outcome.choices[1], <<>>)
    ELSE Item("error", tab, "OpenAI error", <<>>)

\* lines 136-142: what is shown for the outcome of the request
AskShown(tab, outcome) ==
    IF outcome.kind = "exception" THEN Item("error", tab, outcome.text, <<>>)
    ELSE IF outcome.status = 200 THEN Item("success", tab, outcome.choices[1], <<>>)
    ELSE Item("error", tab, "OpenAI error " \o IntToStr(outcome.status), <<>>)

\* One call of ask_ai_v1(df, api_key, key_suffix), then the script goes on at next_pc.
AskAi(tab, next_pc) ==
    \E question \in Questions, outcome \in Outcomes :
        /\ questions' = Append(questions, [tab |-> tab, text |-> question])
        /\ IF question = ""
           THEN /\ display' = display \o <<Item("markdown", tab, "Financial FinBot", <<>>)>>
                /\ pc' = next_pc
                /\ UNCHANGED <<requests, crashed>>
           ELSE IF MissingCols(df, ContextCols)
           THEN /\ display' = display \o <<Item("markdown", tab, "Financial FinBot", <<>>)>>
                /\ crashed' = TRUE
                /\ pc' = "done"
                /\ UNCHANGED requests
           ELSE /\ requests' = requests \o
                        RequestsSent(Request(tab, openai_api_key, question, df, outcome))
                /\ display' = display \o <<Item("markdown", tab, "Financial FinBot", <<>>),
                                            AskShown(tab, outcome)>>
                /\ pc' = next_pc
                /\ UNCHANGED crashed

\* lines 221-224 and 228-231
FinBot(tab, next_pc) ==
    IF openai_api_key # ""
    THEN AskAi(tab, next_pc)
    ELSE /\ display' = display \o <<Item("info", tab, "Enter OpenAI key in sidebar to use FinBot.", <<>>)>>
         /\ pc' = next_pc
         /\ UNCHANGED <<questions, requests, crashed>>

-----------------------------------------------------------------------------
(* Main execution, lines 213-236.                                          *)

\* The rows a loaded sheet is made of: a blank row, four header rows (all columns
\* present; no ending balance; two "ending" labels; no account column) and data rows.
RawRows ==
    { <<NaN, NaN, NaN, NaN>>,
      <<Str("Account"), Str("Description"), Str("Ending Balance"), Str("Debit")>>,
      <<Str("ACCOUNT NO"), Str("Account Description"), Str("Debits"), Str("Credits")>>,
      <<Str("Account"), Str("Description"), Str("ending_balance"), Str("Ending Date")>>,
      <<Str("Account Description"), NaN, Str("Ending Balance"), NaN>>,
      <<Str("14500"), Str("AR"), Num(100), Num(5)>>,
      <<Num(2100), Str("AP"), Str("-70"), Str("n/a")>>,
      <<Str("3100"), Str("Stock"), NaN, NaN>>,
      <<Str("ABC123"), Str("Bad"), Num(1), Num(1)>>,
      <<Str("123\n"), Str("Wrapped"), Num(7), NaN>>,
      <<Str("4000"), Str("Sales"), Str("abc"), Num(0)>> }

RawSheets == {Unreadable} \cup {Readable(g) : g \in SeqUpTo(RawRows, MaxRows)}

ApiKeys == {"", "sk-test"}

\* The sidebar has run: a file was uploaded and a sheet selected, or neither.
InitMain ==
    /\ uploaded_file \in BOOLEAN
    /\ sheet_raw \in (IF uploaded_file THEN RawSheets ELSE {Unreadable})
    /\ openai_api_key \in (IF uploaded_file THEN ApiKeys ELSE {""})
    /\ questions = <<>>
    /\ pc = "start"
    /\ df = NoneDf
    /\ display = <<>>
    /\ requests = <<>>
    /\ crashed = FALSE

\* line 213
Selected == uploaded_file /\ selected_sheet # ""

\* lines 235-236
NoUpload ==
    /\ pc = "start" /\ ~Selected
    /\ display' = display \o
          <<Msg("info", "Please upload a Trial Balance file and select a company tab to continue.")>>
    /\ pc' = "done"
    /\ UNCHANGED <<sidebarVars, clsVars, uploaded_file, sheet_raw, openai_api_key, questions, df, requests, crashed>>

\* lines 214-215
Load ==
    /\ pc = "start" /\ Selected
    /\ LET res == load_trial_balance_from_sheet(sheet_raw)
       IN /\ df' = res.df
          /\ display' = display \o res.shown
          /\ pc' = IF res.df.is_none THEN "done" ELSE "classify"
    /\ UNCHANGED <<sidebarVars, clsVars, uploaded_file, sheet_raw, openai_api_key, questions, requests, crashed>>

\* lines 216-217
Classify ==
    /\ pc = "classify"
    /\ df' = classify_accounts(df)
    /\ pc' = "balance_sheet"
    /\ UNCHANGED <<sidebarVars, clsVars, uploaded_file, sheet_raw, openai_api_key, questions, display, requests, crashed>>

\* line 220
BalanceSheet ==
    /\ pc = "balance_sheet"
    /\ LET res == display_balance_sheet(df)
       IN /\ display' = display \o res.shown
          /\ crashed' = res.raised
          /\ pc' = IF res.raised THEN "done" ELSE "finbot_bs"
    /\ UNCHANGED <<sidebarVars, clsVars, uploaded_file, sheet_raw, openai_api_key, questions, df, requests>>

\* lines 221-224
FinBotBS ==
    /\ pc = "finbot_bs"
    /\ FinBot("bs", "income_statement")
    /\ UNCHANGED <<sidebarVars, clsVars, uploaded_file, sheet_raw, openai_api_key, df>>

\* line 227
IncomeStatement ==
    /\ pc = "income_statement"
    /\ LET res == display_income_statement(df)
       IN /\ display' = display \o res.shown
          /\ crashed' = res.raised
          /\ pc' = IF res.raised THEN "done" ELSE "finbot_is"
    /\ UNCHANGED <<sidebarVars, clsVars, uploaded_file, sheet_raw, openai_api_key, questions, df, requests>>

\* lines 228-231
FinBotIS ==
    /\ pc = "finbot_is"
    /\ FinBot("is", "cash_flow")
    /\ UNCHANGED <<sidebarVars, clsVars, uploaded_file, sheet_raw, openai_api_key, df>>

\* line 234
CashFlow ==
    /\ pc = "cash_flow"
    /\ display' = display \o display_cash_flow
    /\ pc' = "done"
    /\ UNCHANGED <<sidebarVars, clsVars, uploaded_file, sheet_raw, openai_api_key, questions, df, requests, crashed>>

Next ==
    \/ NoUpload
    \/ Load
    \/ Classify
    \/ BalanceSheet
    \/ FinBotBS
    \/ IncomeStatement
    \/ FinBotIS
    \/ CashFlow

\* The other parts of the module stand still while one part runs.
IdleSidebar(sel) ==
    /\ workbook = <<>>
    /\ sheet_idx = 1
    /\ company_sheet_map = {}
    /\ selected_sheet = sel

IdleMain ==
    /\ uploaded_file = FALSE
    /\ sheet_raw = Unreadable
    /\ openai_api_key = ""
    /\ questions = <<>>
    /\ pc = "idle"
    /\ df = NoneDf
    /\ display = <<>>
    /\ requests = <<>>
    /\ crashed = FALSE

IdleCls ==
    /\ cls_input = NoneDf
    /\ cls_df = NoneDf
    /\ cls_once = NoneDf
    /\ cls_n = 0

Init ==
    /\ InitMain
    /\ IdleSidebar(IF uploaded_file THEN "Sheet1" ELSE "")
    /\ IdleCls

\* One run of the main execution.
Spec == Init /\ [][Next]_vars

InitSide == InitSidebar /\ IdleMain /\ IdleCls

\* The sidebar of one run.
SpecSidebar == InitSide /\ [][NextSidebar]_vars

-----------------------------------------------------------------------------
(* classify_accounts as a function of its table, applied again and again.  *)

\* Account numbers: every two-digit prefix from 10 to 49, alone or followed by "500",
\* the one-digit accounts 1-4, and an account that ends in a newline.
ClsAccounts ==
    {a \o b \o c : a \in {"1", "2", "3", "4"}, b \in DigitChars \cup {""}, c \in {"", "500"}}
    \cup {"31\n"}

\* The Category / Sub_Category a row may carry before it is classified.
ClsPriors ==
    { <<"Equity", "Inventory">>, <<"Assets", "Stockholders Equity">>, <<"", "Receivables">> }

\* tables that carry only accounts, and tables that are classified already
ClsTables ==
    { Table(<<Str("Account")>>, rws) :
        rws \in SeqUpTo({<<Str(a)>> : a \in ClsAccounts}, MaxClsRows) }
    \cup
    { Table(<<Str("Account"), Str("Category"), Str("Sub_Category")>>, rws) :
        rws \in SeqUpTo({<<Str(a), Str(p[1]), Str(p[2])>> : a \in ClsAccounts, p \in ClsPriors},
                        MaxClsRows) }

\* the table cut down to its accounts
Bare(d) == Table(<<Str("Account")>>, Project(d, <<"Account">>))

InitCls ==
    /\ cls_input \in ClsTables
    /\ cls_df = cls_input
    /\ cls_once = NoneDf
    /\ cls_n = 0

InitClassify == InitCls /\ IdleSidebar("") /\ IdleMain

\* df = classify_accounts(df)
Reclassify ==
    /\ cls_n < MaxApply
    /\ cls_df' = classify_accounts(cls_df)
    /\ cls_once' = IF cls_n = 0 THEN classify_accounts(Bare(cls_input)) ELSE cls_once
    /\ cls_n' = cls_n + 1
    /\ UNCHANGED <<cls_input, sidebarVars, mainVars>>

NextClassify == Reclassify

SpecClassify == InitClassify /\ [][NextClassify]_vars

-----------------------------------------------------------------------------
(* Properties of classify_accounts.                                        *)

\* the Category the prefix table of section 4.3 gives an account
ExpectedCategory(acct) ==
    CASE CharAt(acct, 1) = "1" -> "Assets"
      [] CharAt(acct, 1) = "2" -> "Liabilities"
      [] CharAt(acct, 1) = "3" -> "Equity"
      [] OTHER -> ""

\* the Sub_Category the two-digit prefix table gives an account
ExpectedSubCategory(acct) ==
    LET p == IF Len(acct) >= 2 THEN SubSeq(acct, 1, 2) ELSE acct
    IN CASE CharAt(acct, 1) = "3" -> "Stockholders Equity"
         [] p \in {"10", "11", "12", "13"} -> "Cash & Equivalents"
         [] p \in {"14", "15"} -> "Receivables"
         [] p = "16" -> "Inventory"
         [] p = "17" -> "Fixed Assets"
         [] p \in {"18", "19"} -> "Other Assets"
         [] p \in {"20", "21"} -> "Current Liabilities"
         [] p \in {"22", "23", "24"} -> "Long-term Liabilities"
         [] OTHER -> ""

\* the <<Account, Category, Sub_Category>> of every row
Classification(d) == Project(d, <<"Account", "Category", "Sub_Category">>)

\* C5: once classify_accounts has run, every row whose Account is a digit string
\* carries the Category of its first digit (Assets, Liabilities, Equity, else "")
\* and the Sub_Category of its two-digit prefix, except that an account starting
\* with 3 always carries "Stockholders Equity"; Account 14500 is Assets / Receivables.
C5_PrefixTable ==
    cls_n >= 1 =>
        \A r \in 1..Len(cls_df.rows) :
            LET row == Classification(cls_df)[r]
            IN IsDigits(row[1].s) =>
                 /\ row[2] = Str(ExpectedCategory(row[1].s))
                 /\ row[3] = Str(ExpectedSubCategory(row[1].s))
                 /\ row[1].s = "14500" => (row[2] = Str("Assets") /\ row[3] = Str("Receivables"))
                 /\ StartsWith(row[1].s, "3") => row[3] = Str("Stockholders Equity")

\* C5 witness: an account of the receivables range that came in with another
\* classification has been classified.
C5_Witness ==
    /\ cls_n >= 1
    /\ Len(cls_df.rows) >= 1
    /\ HasCol(cls_input, "Category")
    /\ Classification(cls_input)[1] = <<Str("14500"), Str("Equity"), Str("Inventory")>>
    /\ Classification(cls_df)[1] = <<Str("14500"), Str("Assets"), Str("Receivables")>>

\* C10: however often classify_accounts is applied to a table, and whatever Category
\* and Sub_Category the table carried before, every row has the Category and
\* Sub_Category that one application to the unclassified table gives it.
C10_Idempotent ==
    cls_n >= 1 => Classification(cls_df) = Classification(cls_once)

\* C10 witness: a table that carried a classification which one application does not
\* give has been classified twice.
C10_Witness ==
    /\ cls_n = 2
    /\ Len(cls_df.rows) >= 1
    /\ HasCol(cls_input, "Category")
    /\ Classification(cls_input) # Classification(cls_once)
    /\ Classification(cls_df) = Classification(cls_once)

-----------------------------------------------------------------------------
(* Properties of the sidebar.                                              *)

SidebarDone == workbook # <<>> /\ sheet_idx > Len(workbook)

\* the rows of a grid that the preview reads
InPreview(g, r) == r \in 1..Len(g) /\ r <= PreviewRows

NonBlank(c) == PyStr(c) # "nan"

\* some cell of the first 20 rows holds exactly text
HasCell(g, text) == \E r \in 1..Len(g) : InPreview(g, r) /\ \E i \in 1..Len(g[r]) : g[r][i] = Str(text)

\* no cell of the sheet mentions a company
NoCompanyLabel(g) ==
    \A r \in 1..Len(g) : \A i \in 1..Len(g[r]) : ~Contains(Lower(PyStr(g[r][i])), "company")

\* cell i of row r is a company label that another non-blank cell follows in its row
LabelWithSuccessor(g, r, i) ==
    /\ InPreview(g, r)
    /\ NonBlank(g[r][i])
    /\ Contains(Lower(PyStr(g[r][i])), "company")
    /\ \E j \in (i + 1)..Len(g[r]) : NonBlank(g[r][j])

\* the non-blank cell that follows cell i in row r
Successor(g, r, i) ==
    g[r][CHOOSE j \in (i + 1)..Len(g[r]) :
            NonBlank(g[r][j]) /\ \A k \in (i + 1)..(j - 1) : ~NonBlank(g[r][k])]

\* the first label that has a successor, rows in order and cells left to right, is
\* followed by name (surrounding whitespace aside)
FirstLabelNames(g, name) ==
    \E r \in 1..Len(g) : \E i \in 1..Len(g[r]) :
        /\ LabelWithSuccessor(g, r, i)
        /\ \A r2 \in 1..r : \A i2 \in 1..Len(g[r2]) :
              (r2 < r \/ i2 < i) => ~LabelWithSuccessor(g, r2, i2)
        /\ Strip(PyStr(Successor(g, r, i))) = name

MapsAcmeAndFallback ==
    /\ <<"Acme Corp", workbook[1].name>> \in company_sheet_map
    /\ <<workbook[2].name, workbook[2].name>> \in company_sheet_map

\* C2 as stated: when the first sheet has a cell "Company: Acme Corp" in its first 20
\* rows and the second has no company label, the finished map holds "Acme Corp" for
\* the first sheet and the second sheet's name for itself.
C2_CellNamesCompany ==
    (/\ SidebarDone
     /\ workbook[1].readable
     /\ HasCell(workbook[1].grid, "Company: Acme Corp")
     /\ NoCompanyLabel(workbook[2].grid))
    => MapsAcmeAndFallback

\* C2 as amended: when the first sheet can be read and the first company label of its
\* first 20 rows that a non-blank cell follows in its row is followed by "Acme Corp",
\* and the second sheet has no company label and is not itself named "Acme Corp", the
\* finished map holds "Acme Corp" for the first sheet and the second sheet's name for
\* itself.
C2_NextCellNamesCompany ==
    (/\ SidebarDone
     /\ workbook[1].readable
     /\ FirstLabelNames(workbook[1].grid, "Acme Corp")
     /\ NoCompanyLabel(workbook[2].grid)
     /\ workbook[2].name # "Acme Corp")
    => MapsAcmeAndFallback

\* C2 witness: the first sheet holds the lone cell "Company: Acme Corp" and, further
\* down, a label followed by the name; the second sheet has no label; the map is built.
C2_Witness ==
    /\ SidebarDone
    /\ workbook[1].readable
    /\ HasCell(workbook[1].grid, "Company: Acme Corp")
    /\ FirstLabelNames(workbook[1].grid, "Acme Corp")
    /\ workbook[2].readable
    /\ Len(workbook[2].grid) >= 1
    /\ NoCompanyLabel(workbook[2].grid)
    /\ workbook[2].name # "Acme Corp"
    /\ MapsAcmeAndFallback

-----------------------------------------------------------------------------
(* Properties of the main execution.                                       *)

\* load_trial_balance_from_sheet has just returned for a sheet that could be read
Loaded ==
    /\ uploaded_file
    /\ sheet_raw.readable
    /\ pc = "classify" \/ (pc = "done" /\ df.is_none)

Shows(kind, text) == \E k \in 1..Len(display) : display[k].kind = kind /\ display[k].text = text

\* a row some of whose cells contain "account" and some "description", whatever the case
QualifyingRow(row) ==
    /\ \E i \in 1..Len(row) : Contains(Lower(PyStr(row[i])), "account")
    /\ \E i \in 1..Len(row) : Contains(Lower(PyStr(row[i])), "description")

HasQualifyingRow(g) == \E h \in 1..Len(g) : QualifyingRow(g[h])

FirstQualifyingRow(g) ==
    CHOOSE h \in 1..Len(g) : QualifyingRow(g[h]) /\ \A k \in 1..(h - 1) : ~QualifyingRow(g[k])

\* the rows after the header that are not blank throughout
FollowingRows(g) ==
    {k \in (FirstQualifyingRow(g) + 1)..Len(g) : \E i \in 1..Len(g[k]) : g[k][i].t # "nan"}

\* t is headed by the first qualifying row and holds the rows that follow it, in order
HeadedByFirstQualifyingRow(t, g) ==
    /\ t.columns = g[FirstQualifyingRow(g)]
    /\ Len(t.rows) = Cardinality(FollowingRows(g))
    /\ \A k \in FollowingRows(g) :
          t.rows[Cardinality({m \in FollowingRows(g) : m <= k})] = g[k]

NotFoundText == "No trial balance found in selected sheet."

\* C1 as stated: for every sheet with a qualifying row, extract_trial_balance returns a
\* non-empty table whose labels are the first such row and whose rows are the non-blank
\* rows after it, so the load never reports the trial balance as not found.
C1_NonEmptyTable ==
    (Loaded /\ HasQualifyingRow(sheet_raw.grid)) =>
        /\ HeadedByFirstQualifyingRow(extract_trial_balance(sheet_raw.grid), sheet_raw.grid)
        /\ ~IsEmpty(extract_trial_balance(sheet_raw.grid))
        /\ ~Shows("warning", NotFoundText)

\* C1 as amended: for every sheet with a qualifying row, extract_trial_balance returns
\* a table whose labels are the first such row and whose rows are the non-blank rows
\* after it; the table is non-empty exactly when such a row follows the header, and
\* when none does the load reports "No trial balance found in selected sheet.".
C1_TableOfFollowingRows ==
    (Loaded /\ HasQualifyingRow(sheet_raw.grid)) =>
        /\ HeadedByFirstQualifyingRow(extract_trial_balance(sheet_raw.grid), sheet_raw.grid)
        /\ IsEmpty(extract_trial_balance(sheet_raw.grid)) <=> FollowingRows(sheet_raw.grid) = {}
        /\ Shows("warning", NotFoundText) <=> FollowingRows(sheet_raw.grid) = {}

\* C1 witness: a sheet whose header is followed by blank rows only has been loaded and
\* reported as holding no trial balance.
C1_Witness ==
    /\ Loaded
    /\ HasQualifyingRow(sheet_raw.grid)
    /\ FirstQualifyingRow(sheet_raw.grid) < Len(sheet_raw.grid)
    /\ FollowingRows(sheet_raw.grid) = {}
    /\ Shows("warning", NotFoundText)
    /\ df.is_none

\* C3: no exception leaves the load, the classification, the views or the FinBot, and
\* a load that fails has shown a warning or an error.
C3_NoExceptionEscapes ==
    /\ ~crashed
    /\ (pc = "done" /\ uploaded_file /\ df.is_none) =>
          \E k \in 1..Len(display) : display[k].kind \in {"warning", "error"}

\* C4: every row of the loaded and of the classified table, and every row a view
\* shows, has an Account made of decimal digits only.
C4_AccountsAreDigits ==
    /\ ~df.is_none => \A r \in 1..Len(df.rows) : IsDigits(PyStr(Get(df, df.rows[r], "Account")))
    /\ \A k \in 1..Len(display) :
          display[k].kind = "dataframe" =>
              \A r \in 1..Len(display[k].data) : IsDigits(PyStr(display[k].data[r][1]))

RECURSIVE SignedSum(_, _, _, _)
\* the sum of Ending_Balance over the rows r.. of d with the given Category and Sub_Category
SignedSum(d, cat, sub, r) ==
    IF r > Len(d.rows) THEN 0
    ELSE (IF Get(d, d.rows[r], "Category") = Str(cat) /\ Get(d, d.rows[r], "Sub_Category") = Str(sub)
          THEN Get(d, d.rows[r], "Ending_Balance").n ELSE 0)
         + SignedSum(d, cat, sub, r + 1)

Abs(x) == IF x < 0 THEN 0 - x ELSE x

ChartCategory(tag) == IF tag = "Liabilities" THEN "Liabilities" ELSE "Equity"

\* C7: every bar of the Liabilities and of the Equity chart is the absolute value of
\* the signed sum of its Sub_Category.
C7_ChartsShowAbsoluteSums ==
    \A k \in 1..Len(display) :
        (display[k].kind = "chart" /\ display[k].tag \in {"Liabilities", "Equity"}) =>
            \A b \in 1..Len(display[k].data) :
                /\ display[k].data[b].value >= 0
                /\ display[k].data[b].value =
                      Abs(SignedSum(df, ChartCategory(display[k].tag), display[k].data[b].key, 1))

\* the label reads as the Account column
ReadsAsAccount(label) ==
    Contains(Lower(PyStr(label)), "account") /\ ~Contains(Lower(PyStr(label)), "description")

\* C8: when the extracted table is not empty, has a column labelled "Ending Balance" or
\* "ending_balance" and a column that reads as Account, the load returns a table with
\* one Ending_Balance column, all of whose values are numbers.
C8_EndingBalanceNumeric ==
    (/\ Loaded
     /\ ~IsEmpty(extract_trial_balance(sheet_raw.grid))
     /\ \E i \in 1..Len(extract_trial_balance(sheet_raw.grid).columns) :
           extract_trial_balance(sheet_raw.grid).columns[i] \in {Str("Ending Balance"), Str("ending_balance")}
     /\ \E i \in 1..Len(extract_trial_balance(sheet_raw.grid).columns) :
           ReadsAsAccount(extract_trial_balance(sheet_raw.grid).columns[i]))
    =>
    /\ ~df.is_none
    /\ Len(ColIdx(df, "Ending_Balance")) = 1
    /\ \A r \in 1..Len(df.rows) : Get(df, df.rows[r], "Ending_Balance").t = "num"

\* the kind of failure a request met: "ok" for a 200 response
FailureClass(o) ==
    IF o.kind = "exception" THEN "transport"
    ELSE IF o.status = 200 THEN "ok"
    ELSE IF o.status >= 500 /\ o.status <= 599 THEN "server"
    ELSE "other"

\* the FinBot of the tab shows text as an item of the kind
FinBotShows(tab, kind, text) ==
    \E k \in 1..Len(display) :
        display[k].tag = tab /\ display[k].kind = kind /\ display[k].text = text

FinBotShowsKind(tab, kind) ==
    \E k \in 1..Len(display) : display[k].tag = tab /\ display[k].kind = kind

\* C6: two requests of a run that met failures of different kinds (transport, 5xx,
\* other non-200) are each answered by an error message, and no error message shown
\* for the one is a message shown for the other.
C6_FailuresShowDistinctErrors ==
    \A i, j \in 1..Len(requests) :
        (/\ FailureClass(requests[i].outcome) # "ok"
         /\ FailureClass(requests[j].outcome) # "ok"
         /\ FailureClass(requests[i].outcome) # FailureClass(requests[j].outcome))
        =>
        /\ FinBotShowsKind(requests[i].tab, "error")
        /\ FinBotShowsKind(requests[j].tab, "error")
        /\ \A k, m \in 1..Len(display) :
              (/\ display[k].kind = "error" /\ display[k].tag = requests[i].tab
               /\ display[m].kind = "error" /\ display[m].tag = requests[j].tab)
              => display[k].text # display[m].text

\* C6 witness: one FinBot met a 500 response and the other a 404 response.
C6_Witness ==
    /\ Len(requests) = 2
    /\ requests[1].outcome.status = 500
    /\ requests[2].outcome.status = 404
    /\ FinBotShows("bs", "error", "OpenAI error 500")
    /\ FinBotShows("is", "error", "OpenAI error 404")

Tabs == {"bs", "is"}

RequestsOf(tab) == {i \in 1..Len(requests) : requests[i].tab = tab}
AsksOf(tab) == {k \in 1..Len(questions) : questions[k].tab = tab}

\* C9: a FinBot input with a question has led to exactly one request, whatever the
\* outcome, and an input without one to none; a failed request is answered by an error
\* and a 200 response by the text of its first completion; no request exists without
\* a question, without a credential or without a loaded trial balance.
C9_OneRequestPerQuestion ==
    /\ \A tab \in Tabs :
          /\ Cardinality(AsksOf(tab)) <= 1
          /\ AsksOf(tab) = {} => RequestsOf(tab) = {}
          /\ \A k \in AsksOf(tab) :
                IF questions[k].text = "" THEN RequestsOf(tab) = {}
                ELSE /\ Cardinality(RequestsOf(tab)) = 1
                     /\ \A i \in RequestsOf(tab) : requests[i].question = questions[k].text
    /\ \A i \in 1..Len(requests) :
          /\ requests[i].question # ""
          /\ requests[i].api_key # ""
          /\ requests[i].api_key = openai_api_key
          /\ IF FailureClass(requests[i].outcome) = "ok"
             THEN /\ FinBotShows(requests[i].tab, "success", requests[i].outcome.choices[1])
                  /\ ~FinBotShowsKind(requests[i].tab, "error")
             ELSE /\ FinBotShowsKind(requests[i].tab, "error")
                  /\ ~FinBotShowsKind(requests[i].tab, "success")
    /\ (openai_api_key = "" \/ df.is_none) => requests = <<>>

\* C9 witness: the first FinBot's request failed and the second one's was answered
\* with two completions; the run is over and two requests were sent.
C9_Witness ==
    /\ pc = "done"
    /\ Len(requests) = 2
    /\ requests[1].tab = "bs" /\ requests[1].outcome.kind = "exception"
    /\ requests[2].tab = "is" /\ requests[2].outcome.status = 200
    /\ Len(requests[2].outcome.choices) = 2
    /\ FinBotShows("is", "success", "Answer A")

====
